---- MODULE Spec2Model ----
(***************************************************************************)
(* Model of src/cpp/Socket.hpp: class Socket, a stateful handle around one *)
(* OS socket descriptor, deriving its status bits from std::ios.           *)
(*                                                                         *)
(* The program is a single thread that constructs, uses and destroys the   *)
(* Socket objects of one scope, as example/server.cpp does with `server`   *)
(* and `client`.  The OS socket provider is the environment: an OS call on *)
(* a descriptor that is not open fails, an OS call on an open descriptor   *)
(* succeeds or fails as the environment chooses.                           *)
(*                                                                         *)
(* A second specification, SpecE2E, runs example/server.cpp and             *)
(* example/client.cpp as two processes joined by one TCP connection.       *)
(*                                                                         *)
(* Socket::_errno holds no status information and feeds nothing but the    *)
(* early return of errcode(); it is not a variable here, and that early    *)
(* return is an input of Errcode.                                          *)
(***************************************************************************)
EXTENDS Integers, Sequences, FiniteSets, TLC

\* ---------------------------------------------------------------- bounds
MaxFd == 2          \* size of the OS descriptor table
MaxLen == 1         \* largest len passed to read / write
MaxBuf == 3         \* longest std::string buffer followed in getline
MaxReads == 4       \* bytes delivered inside one getline call

\* ------------------------------------------------------------- constants
NSock == 2          \* Socket objects of the scope: server and client
NoSd == -1          \* int _sd{ -1 }: the unbound sentinel
NoChar == -1        \* char c = -1 in getline
Nul == 0            \* '\0'
Newline == 10       \* '\n', the default delimiter of getline
LetterH == 104      \* 'h', a payload byte of "hello world!\n"

Sock == 1..NSock
Fd == 1..MaxFd
Bits == {"eof", "fail", "bad"}      \* std::ios_base::iostate, goodbit = {}
Byte == {Nul, Newline, LetterH}
Delims == {Newline}
Lens == 0..MaxLen
AddrStrs == {"127.0.0.1", "not.an.ip"}

VARIABLES
    live,       \* live[s]: the Socket object in slot s exists
    _sd,        \* _sd[s]: Socket::_sd
    state,      \* state[s]: the std::ios status bits of s (rdstate())
    fds,        \* descriptors open in the OS descriptor table
    listening,  \* open descriptors on which OS listen succeeded
    connected,  \* open descriptors that are one end of a connection
    rdbufNull,  \* the build: rdbuf() of the never init()-ed std::ios base
    gl,         \* the getline call in progress, if any
    buffer,     \* the caller's std::string handed to getline
    glLog,      \* bytes the OS delivered since the outermost getline call
    lastOp,     \* history: the operation that produced this state
    lastCalls,  \* history: the OS calls that operation issued, in order
    pcServer,   \* example/server.cpp: the statement main executes next
    pcClient,   \* example/client.cpp: the statement main executes next
    client,     \* example/client.cpp: its Socket and its descriptor table
    backlog,    \* a connection to the server's port awaits accept
    wire,       \* bytes the server has written, not yet delivered
    inbox,      \* bytes delivered to the client's descriptor, not yet read
    fin         \* the server's end of the connection is closed

\* The state of the two example programs and of the connection between them.
e2evars == <<pcServer, pcClient, client, backlog, wire, inbox, fin>>

vars == <<live, _sd, state, fds, listening, connected, rdbufNull,
          gl, buffer, glLog, lastOp, lastCalls, e2evars>>

\* ------------------------------------------------------ std::ios helpers
\* std::ios::good(): no bit set.
good(st) == st = {}

\* std::ios::fail(): failbit or badbit set.
fail(st) == st \cap {"fail", "bad"} # {}

\* explicit operator bool() of std::ios: !fail().  eofbit alone is true.
boolOf(st) == ~fail(st)

\* Mutant of setstate: clear(bits), the bits are assigned, not or-ed in.
setstate_assign(st, bits) == bits \cup (IF rdbufNull THEN {"bad"} ELSE {})

\* std::ios::setstate(bits) == clear(rdstate() | bits).  Socket never calls
\* init(), so rdbuf() is whatever the build left there: clear() adds badbit
\* when rdbuf() is null (libstdc++ zero-initialises it) and adds nothing
\* when it is not.  setstate(goodbit) therefore clears nothing.
setstate(st, bits) == st \cup bits \cup (IF rdbufNull THEN {"bad"} ELSE {})

\* --------------------------------------------------------- OS collaborator
\* Success of an OS call on descriptor fd: impossible unless fd is open.
OsOk(fd, open) == IF fd \in open THEN BOOLEAN ELSE {FALSE}

\* socket(2) / accept(2) hand out the lowest free descriptor number.
FreeFds(open) == Fd \ open
LowestFree(open) == CHOOSE f \in FreeFds(open) : \A g \in FreeFds(open) : f <= g

\* ::close(fd): outcomes [ok, open].  Closing an open descriptor releases
\* it even when the call reports an error (EINTR, EIO), as Linux does.
CloseOutcomes(fd, open) ==
    IF fd \in open
    THEN {[ok |-> TRUE, open |-> open \ {fd}],
          [ok |-> FALSE, open |-> open \ {fd}]}
    ELSE {[ok |-> FALSE, open |-> open]}

\* inet_pton(AF_INET, addrstr, &dst): 1 for a valid dotted-decimal string,
\* 0 for an invalid one (dst is left as it was, zeroed); -1 only for an
\* unsupported address family, which AF_INET is not.
inet_pton(addrstr) == IF addrstr = "127.0.0.1" THEN 1 ELSE 0

\* Socket::strToAddr: false only when inet_pton returns -1.
strToAddr(addrstr) == inet_pton(addrstr) # -1

\* ------------------------------------------------------------ the machine
\* A method runs on a frame m: the object's fields, the OS state it sees
\* and the OS calls it has issued so far, each with its outcome.
Frame(s) == [sd |-> _sd[s], st |-> state[s],
             open |-> fds, lis |-> listening, conn |-> connected,
             calls |-> <<>>]

\* A fresh object on descriptor sdv: std::ios() leaves goodbit.
Fresh(sdv, open, conn) ==
    [sd |-> sdv, st |-> {},
     open |-> IF sdv \in Fd THEN open \cup {sdv} ELSE open,
     lis |-> listening, conn |-> conn, calls |-> <<>>]

NoGetline == [pc |-> "idle", s |-> 0, c |-> NoChar, delim |-> Newline]

\* example/client.cpp before `Socket client;`: no object, no descriptor.
NoClient == [sd |-> NoSd, st |-> {}, open |-> {}, conn |-> {}]

\* "hello world!\n", the 13 bytes example/server.cpp writes.
HelloWorld == <<104, 101, 108, 108, 111, 32, 119, 111, 114, 108, 100, 33, 10>>

\* No getline call is in progress: the thread is free to call something.
Idle == gl.pc = "idle"

\* Socket objects have automatic storage duration: slots 1..Top are alive,
\* the next object is built in slot Top + 1 and the object in slot Top is
\* the first to be destroyed.
Top == Cardinality({x \in Sock : live[x]})

\* The history record of an operation on s.
Op(name, s) == [op |-> name, s |-> s, arg |-> 0]

\* Write the OS side of a frame back and record the operation and the OS
\* calls it issued in the history.
CommitOs(m, op) ==
    /\ fds' = m.open
    /\ listening' = m.lis \cap m.open
    /\ connected' = m.conn \cap m.open
    /\ lastCalls' = m.calls
    /\ lastOp' = op
    /\ UNCHANGED rdbufNull

\* Write a frame back to the object in slot s.
Commit(s, m, op) ==
    /\ _sd' = [_sd EXCEPT ![s] = m.sd]
    /\ state' = [state EXCEPT ![s] = m.st]
    /\ CommitOs(m, op)

\* Socket::isOpen()
isOpen(sdv) == sdv # NoSd

\* Socket::close() on frame m with OS outcome o.
close(m, o) ==
    [m EXCEPT !.st = IF o.ok THEN setstate(m.st, {})
                             ELSE setstate(m.st, {"fail"}),
              !.sd = NoSd,
              !.open = o.open,
              !.calls = Append(m.calls, <<"close", m.sd, o.ok>>)]

\* Mutant of the constructor body: a failed setup is not followed by close().
SocketBody_noClose(m, optOk, o) ==
    [m EXCEPT !.st = IF optOk THEN m.st ELSE setstate(m.st, {"fail"}),
              !.calls = Append(m.calls, <<"setsockopt", m.sd, optOk>>)]

\* Body of Socket::Socket(int sd) on a fresh object whose _sd is m.sd.
\* optOk: the setsockopt outcome; o: the outcome of the close it may issue.
SocketBody(m, optOk, o) ==
    LET m1 == [m EXCEPT !.st = IF optOk THEN m.st
                                        ELSE setstate(m.st, {"fail"}),
                        !.calls = Append(m.calls,
                                         <<"setsockopt", m.sd, optOk>>)]
    IN IF ~boolOf(m1.st) THEN close(m1, o) ELSE m1

\* The close outcomes that SocketBody can use: one dummy when no close runs.
BodyCloseOutcomes(m, optOk) ==
    IF optOk THEN {[ok |-> TRUE, open |-> m.open]}
             ELSE CloseOutcomes(m.sd, m.open)

\* Socket::Socket(): socket(PF_INET, SOCK_STREAM, 0), then Socket(int).
SocketDefault(s) ==
    /\ Idle /\ ~live[s] /\ s = Top + 1
    /\ \E sockOk \in (IF FreeFds(fds) = {} THEN {FALSE} ELSE BOOLEAN) :
         LET fd == IF sockOk THEN LowestFree(fds) ELSE NoSd
             m0 == [Fresh(fd, fds, connected) EXCEPT
                      !.calls = <<<<"socket", fd, sockOk>>>>]
         IN \E optOk \in OsOk(fd, m0.open) :
              \E o \in BodyCloseOutcomes(m0, optOk) :
                 Commit(s, SocketBody(m0, optOk, o), Op("Socket", s))
    /\ live' = [live EXCEPT ![s] = TRUE]
    /\ UNCHANGED <<gl, buffer, glLog>>
    /\ UNCHANGED e2evars

\* Socket::Socket(int sd) with a descriptor given by the caller: the
\* sentinel, or a descriptor the caller has just opened itself.
SocketInt(s) ==
    /\ Idle /\ ~live[s] /\ s = Top + 1
    /\ \E valid \in (IF FreeFds(fds) = {} THEN {FALSE} ELSE BOOLEAN) :
         LET fd == IF valid THEN LowestFree(fds) ELSE NoSd
             m0 == Fresh(fd, fds, connected)
         IN \E optOk \in OsOk(fd, m0.open) :
              \E o \in BodyCloseOutcomes(m0, optOk) :
                 Commit(s, SocketBody(m0, optOk, o), Op("SocketInt", s))
    /\ live' = [live EXCEPT ![s] = TRUE]
    /\ UNCHANGED <<gl, buffer, glLog>>
    /\ UNCHANGED e2evars

\* Socket::Socket(const Socket &&other) : _sd{ std::move(other._sd) } {}
\* other is const, so std::move copies the int; other._sd is not touched.
\* The std::ios base of the new object is default-constructed.
MoveCtor(t, s) ==
    /\ Idle /\ live[s] /\ ~live[t] /\ t = Top + 1
    /\ live' = [live EXCEPT ![t] = TRUE]
    /\ _sd' = [_sd EXCEPT ![t] = _sd[s]]
    /\ state' = [state EXCEPT ![t] = {}]
    /\ lastOp' = [Op("move", t) EXCEPT !.arg = s]
    /\ lastCalls' = <<>>
    /\ UNCHANGED <<fds, listening, connected, rdbufNull, gl, buffer, glLog>>
    /\ UNCHANGED e2evars

\* Socket::close()
Close(s) ==
    /\ Idle /\ live[s]
    /\ \E o \in CloseOutcomes(_sd[s], fds) :
         Commit(s, close(Frame(s), o), Op("close", s))
    /\ UNCHANGED <<live, gl, buffer, glLog>>
    /\ UNCHANGED e2evars

\* Socket::~Socket(): close() when still open; the object is gone after.
Destructor(s) ==
    /\ Idle /\ live[s] /\ s = Top
    /\ \E o \in (IF isOpen(_sd[s]) THEN CloseOutcomes(_sd[s], fds)
                                   ELSE {[ok |-> TRUE, open |-> fds]}) :
         LET m == IF isOpen(_sd[s]) THEN close(Frame(s), o) ELSE Frame(s)
         IN Commit(s, [m EXCEPT !.sd = NoSd, !.st = {}], Op("~Socket", s))
    /\ live' = [live EXCEPT ![s] = FALSE]
    /\ UNCHANGED <<gl, buffer, glLog>>
    /\ UNCHANGED e2evars

\* Mutant of listen: bind and listen are issued whatever the status is.
listen_unguarded(m, bindOk, listenOk) ==
    [m EXCEPT !.st = IF bindOk /\ listenOk THEN m.st
                                           ELSE setstate(m.st, {"fail"}),
              !.calls = m.calls \o <<<<"bind", m.sd, bindOk>>,
                                     <<"listen", m.sd, listenOk>>>>]

\* Socket::listen(in_port_t, in_addr_t, int) on frame m.
listen(m, bindOk, listenOk) ==
    LET m1 == IF good(m.st)
              THEN [m EXCEPT !.st = IF bindOk THEN m.st
                                              ELSE setstate(m.st, {"fail"}),
                             !.calls = Append(m.calls,
                                              <<"bind", m.sd, bindOk>>)]
              ELSE m
    IN IF good(m1.st)
       THEN [m1 EXCEPT !.st = IF listenOk THEN m1.st
                                          ELSE setstate(m1.st, {"fail"}),
                       !.lis = IF listenOk THEN m1.lis \cup {m1.sd}
                                           ELSE m1.lis,
                       !.calls = Append(m1.calls,
                                        <<"listen", m1.sd, listenOk>>)]
       ELSE m1

\* The OS outcomes listen can meet on frame m: bind, then listen.  Neither
\* succeeds on a descriptor that is already connected.
ListenOutcomes(m) ==
    {o \in [bindOk : BOOLEAN, listenOk : BOOLEAN] :
        /\ o.bindOk \in (IF good(m.st) THEN OsOk(m.sd, m.open \ m.conn)
                                        ELSE {TRUE})
        /\ o.listenOk \in (IF good(m.st) /\ o.bindOk
                            THEN OsOk(m.sd, m.open \ m.conn) ELSE {TRUE})}

Listen(s) ==
    /\ Idle /\ live[s]
    /\ \E o \in ListenOutcomes(Frame(s)) :
         Commit(s, listen(Frame(s), o.bindOk, o.listenOk), Op("listen", s))
    /\ UNCHANGED <<live, gl, buffer, glLog>>
    /\ UNCHANGED e2evars

\* Socket::listen(in_port_t, const char *addrstr, int)
ListenStr(s) ==
    /\ Idle /\ live[s]
    /\ \E addrstr \in AddrStrs :
         LET m0 == [Frame(s) EXCEPT
                      !.st = IF strToAddr(addrstr) THEN @
                             ELSE setstate(@, {"fail"})]
         IN \E o \in ListenOutcomes(m0) :
              Commit(s, listen(m0, o.bindOk, o.listenOk),
                     [Op("listenStr", s) EXCEPT !.arg = addrstr])
    /\ UNCHANGED <<live, gl, buffer, glLog>>
    /\ UNCHANGED e2evars

\* Mutant of connect: a failed OS connect is followed by closing the Socket.
connect_closesOnFailure(m, connOk) ==
    IF good(m.st)
    THEN [m EXCEPT !.st = IF connOk THEN m.st ELSE setstate(m.st, {"fail"}),
                   !.sd = IF connOk THEN m.sd ELSE NoSd,
                   !.open = IF connOk THEN m.open ELSE m.open \ {m.sd},
                   !.conn = IF connOk THEN m.conn \cup {m.sd} ELSE m.conn,
                   !.calls = Append(m.calls, <<"connect", m.sd, connOk>>)]
    ELSE m

\* Socket::connect(in_port_t, in_addr_t) on frame m.
connect(m, connOk) ==
    IF good(m.st)
    THEN [m EXCEPT !.st = IF connOk THEN m.st ELSE setstate(m.st, {"fail"}),
                   !.conn = IF connOk THEN m.conn \cup {m.sd} ELSE m.conn,
                   !.calls = Append(m.calls, <<"connect", m.sd, connOk>>)]
    ELSE m

\* The OS outcomes connect can meet on frame m: it cannot succeed on a
\* descriptor that is listening or already connected.
ConnectOutcomes(m) ==
    IF good(m.st) THEN OsOk(m.sd, m.open \ (m.lis \cup m.conn)) ELSE {TRUE}

Connect(s) ==
    /\ Idle /\ live[s]
    /\ \E ok \in ConnectOutcomes(Frame(s)) :
         Commit(s, connect(Frame(s), ok), Op("connect", s))
    /\ UNCHANGED <<live, gl, buffer, glLog>>
    /\ UNCHANGED e2evars

\* Socket::connect(in_port_t, const char *addrstr)
ConnectStr(s) ==
    /\ Idle /\ live[s]
    /\ \E addrstr \in AddrStrs :
         LET m0 == [Frame(s) EXCEPT
                      !.st = IF strToAddr(addrstr) THEN @
                             ELSE setstate(@, {"fail"})]
         IN \E ok \in ConnectOutcomes(m0) :
              Commit(s, connect(m0, ok),
                     [Op("connectStr", s) EXCEPT !.arg = addrstr])
    /\ UNCHANGED <<live, gl, buffer, glLog>>
    /\ UNCHANGED e2evars

\* Mutant of accept: the OS accept is issued whatever the status is.
Accept_unguarded(s, t) ==
    /\ Idle /\ live[s] /\ ~live[t] /\ t = Top + 1
    /\ LET m == Frame(s)
           canAccept == m.sd \in m.lis /\ FreeFds(m.open) # {}
       IN \E accOk \in (IF canAccept THEN BOOLEAN ELSE {FALSE}) :
            LET peersd == IF accOk THEN LowestFree(m.open) ELSE NoSd
                m0 == [Fresh(peersd, m.open,
                             IF peersd # NoSd THEN m.conn \cup {peersd}
                                              ELSE m.conn) EXCEPT
                         !.calls = <<<<"accept", m.sd, accOk>>>>]
            IN \E optOk \in OsOk(peersd, m0.open) :
                 \E o \in BodyCloseOutcomes(m0, optOk) :
                    LET n == SocketBody(m0, optOk, o)
                    IN /\ _sd' = [_sd EXCEPT ![t] = n.sd]
                       /\ state' = [state EXCEPT ![t] = n.st]
                       /\ CommitOs(n, [Op("accept", s) EXCEPT !.arg = t])
    /\ live' = [live EXCEPT ![t] = TRUE]
    /\ UNCHANGED <<gl, buffer, glLog>>
    /\ UNCHANGED e2evars

\* Socket::accept(): the OS accept only when good; then Socket(peersd) is
\* constructed in slot t, sentinel or not.
Accept(s, t) ==
    /\ Idle /\ live[s] /\ ~live[t] /\ t = Top + 1
    /\ LET m == Frame(s)
           issued == good(m.st)
           canAccept == issued /\ m.sd \in m.lis /\ FreeFds(m.open) # {}
       IN \E accOk \in (IF canAccept THEN BOOLEAN
                        ELSE IF issued THEN {FALSE} ELSE {TRUE}) :
            LET peersd == IF issued /\ accOk THEN LowestFree(m.open) ELSE NoSd
                m0 == [Fresh(peersd, m.open,
                             IF peersd # NoSd THEN m.conn \cup {peersd}
                                              ELSE m.conn) EXCEPT
                         !.calls = IF issued THEN <<<<"accept", m.sd, accOk>>>>
                                             ELSE <<>>]
            IN \E optOk \in OsOk(peersd, m0.open) :
                 \E o \in BodyCloseOutcomes(m0, optOk) :
                    LET n == SocketBody(m0, optOk, o)
                    IN /\ _sd' = [_sd EXCEPT ![t] = n.sd]
                       /\ state' = [state EXCEPT ![t] = n.st]
                       /\ CommitOs(n, [Op("accept", s) EXCEPT !.arg = t])
    /\ live' = [live EXCEPT ![t] = TRUE]
    /\ UNCHANGED <<gl, buffer, glLog>>
    /\ UNCHANGED e2evars

\* Socket::errcode(): returns the cached _errno when it is non-zero
\* (cached); otherwise getsockopt(SO_KEEPALIVE), failbit when that fails.
Errcode(s) ==
    /\ Idle /\ live[s]
    /\ LET m == Frame(s)
       IN \E cached \in BOOLEAN :
            IF cached
            THEN Commit(s, m, Op("errcode", s))
            ELSE \E ok \in OsOk(m.sd, m.open) :
                   Commit(s, [m EXCEPT
                                !.st = IF ok THEN m.st
                                             ELSE setstate(m.st, {"fail"}),
                                !.calls = <<<<"getsockopt", m.sd, ok>>>>],
                          Op("errcode", s))
    /\ UNCHANGED <<live, gl, buffer, glLog>>
    /\ UNCHANGED e2evars

\* ::read(fd, buf, len): -1 on a descriptor that is not a connected open
\* one; otherwise an error, 0 (end of stream, or len = 0) or 1..len bytes.
ReadOutcomes(m, len) ==
    IF m.sd \notin (m.open \cap m.conn) THEN {-1} ELSE -1..len

\* Socket::read(char *, std::streamsize) on frame m, r the OS result.
read(m, len, r) ==
    LET st1 == IF r = 0 /\ len > 0 THEN setstate(m.st, {"eof"}) ELSE m.st
        st2 == IF r = -1 THEN setstate(st1, {"bad"}) ELSE st1
    IN [m EXCEPT !.st = st2,
                 !.calls = Append(m.calls, <<"read", m.sd, len, r>>)]

Read(s) ==
    /\ Idle /\ live[s]
    /\ \E len \in Lens : \E r \in ReadOutcomes(Frame(s), len) :
         Commit(s, read(Frame(s), len, r), Op("read", s))
    /\ UNCHANGED <<live, gl, buffer, glLog>>
    /\ UNCHANGED e2evars

\* ::write(fd, buf, len): -1 on a descriptor that is not a connected open
\* one; otherwise an error or 0..len bytes written.
WriteOutcomes(m, len) ==
    IF m.sd \notin (m.open \cap m.conn) THEN {-1} ELSE -1..len

\* Mutant of write: only an error result sets badbit, a zero-byte write of
\* len > 0 bytes goes unnoticed.
write_ignoresZero(m, len, r) ==
    [m EXCEPT !.st = IF r = -1 THEN setstate(m.st, {"bad"}) ELSE m.st,
              !.calls = Append(m.calls, <<"write", m.sd, len, r>>)]

\* Socket::write(const char *, std::streamsize) on frame m, r the OS result.
write(m, len, r) ==
    [m EXCEPT !.st = IF (r = 0 /\ len > 0) \/ r = -1
                     THEN setstate(m.st, {"bad"}) ELSE m.st,
              !.calls = Append(m.calls, <<"write", m.sd, len, r>>)]

Write(s) ==
    /\ Idle /\ live[s]
    /\ \E len \in Lens : \E r \in WriteOutcomes(Frame(s), len) :
         Commit(s, write(Frame(s), len, r), Op("write", s))
    /\ UNCHANGED <<live, gl, buffer, glLog>>
    /\ UNCHANGED e2evars

\* Socket::info(): getsockname on _sd, failbit when it fails.
Info(s) ==
    /\ Idle /\ live[s]
    /\ LET m == Frame(s)
       IN \E ok \in OsOk(m.sd, m.open) :
            Commit(s, [m EXCEPT !.st = IF ok THEN m.st
                                             ELSE setstate(m.st, {"fail"}),
                                !.calls = <<<<"getsockname", m.sd, ok>>>>],
                   Op("info", s))
    /\ UNCHANGED <<live, gl, buffer, glLog>>
    /\ UNCHANGED e2evars

\* Socket::peerinfo(): getpeername on _sd, failbit when it fails; it fails
\* on a descriptor that has no peer.
PeerInfo(s) ==
    /\ Idle /\ live[s]
    /\ LET m == Frame(s)
       IN \E ok \in OsOk(m.sd, m.open \cap m.conn) :
            Commit(s, [m EXCEPT !.st = IF ok THEN m.st
                                             ELSE setstate(m.st, {"fail"}),
                                !.calls = <<<<"getpeername", m.sd, ok>>>>],
                   Op("peerinfo", s))
    /\ UNCHANGED <<live, gl, buffer, glLog>>
    /\ UNCHANGED e2evars

\* Socket::localinfo(): a throwaway Socket local is constructed, connected
\* to the loopback address, asked for its local name (failbit on *this when
\* that fails) and destroyed when the method returns.
LocalInfo(s) ==
    /\ Idle /\ live[s]
    /\ \E sockOk \in (IF FreeFds(fds) = {} THEN {FALSE} ELSE BOOLEAN) :
       \E fd \in {IF sockOk THEN LowestFree(fds) ELSE NoSd} :
       \E l0 \in {[Fresh(fd, fds, connected) EXCEPT
                     !.calls = <<<<"socket", fd, sockOk>>>>]} :
       \E optOk \in OsOk(fd, l0.open) :
       \E o \in BodyCloseOutcomes(l0, optOk) :
       \E l1 \in {SocketBody(l0, optOk, o)} :
       \E connOk \in ConnectOutcomes(l1) :
       \E l2 \in {connect(l1, connOk)} :
       \E nameOk \in OsOk(l2.sd, l2.open) :
       \E l3 \in {[l2 EXCEPT !.calls =
                     Append(l2.calls, <<"getsockname", l2.sd, nameOk>>)]} :
       \E oc \in (IF isOpen(l3.sd) THEN CloseOutcomes(l3.sd, l3.open)
                                   ELSE {[ok |-> TRUE, open |-> l3.open]}) :
       \E l4 \in {IF isOpen(l3.sd) THEN close(l3, oc) ELSE l3} :
          Commit(s, [l4 EXCEPT !.sd = _sd[s],
                               !.st = IF nameOk THEN state[s]
                                      ELSE setstate(state[s], {"fail"})],
                 Op("localinfo", s))
    /\ UNCHANGED <<live, gl, buffer, glLog>>
    /\ UNCHANGED e2evars

\* Socket::getline(std::string &, char): the call.  The caller hands in its
\* string, empty or not, and the delimiter.
GetlineCall(s) ==
    /\ Idle /\ live[s]
    /\ \E delim \in Delims : \E prior \in {<<>>, <<LetterH>>} :
         /\ gl' = [pc |-> "call", s |-> s, c |-> NoChar, delim |-> delim]
         /\ buffer' = prior
    /\ glLog' = <<>>
    /\ lastOp' = Op("getline", s)
    /\ lastCalls' = <<>>
    /\ UNCHANGED <<live, _sd, state, fds, listening, connected, rdbufNull>>
    /\ UNCHANGED e2evars

\* Mutant of the entry of getline: the buffer is not cleared.
GetlineEnter_noClear ==
    /\ gl.pc = "call"
    /\ gl' = [gl EXCEPT !.pc = "loop", !.c = NoChar]
    /\ lastCalls' = <<>>
    /\ UNCHANGED <<live, _sd, state, fds, listening, connected, rdbufNull,
                   buffer, glLog, lastOp>>
    /\ UNCHANGED e2evars

\* getline, entry of a call or of the recursive call: char c = -1;
\* buffer.clear();
GetlineEnter ==
    /\ gl.pc = "call"
    /\ gl' = [gl EXCEPT !.pc = "loop", !.c = NoChar]
    /\ buffer' = <<>>
    /\ lastCalls' = <<>>
    /\ UNCHANGED <<live, _sd, state, fds, listening, connected, rdbufNull,
                   glLog, lastOp>>
    /\ UNCHANGED e2evars

\* Mutant of the getline loop: the byte is stored before it is compared
\* with the delimiter, so the delimiter ends up in the buffer.
GetlineStep_storesDelim ==
    /\ gl.pc = "loop"
    /\ Len(glLog) < MaxReads /\ Len(buffer) < MaxBuf
    /\ \E r \in ReadOutcomes(Frame(gl.s), 1) :
       \E b \in (IF r = 1 THEN Byte ELSE {gl.c}) :
         LET m == read(Frame(gl.s), 1, r)
             cond == boolOf(m.st) /\ b # gl.delim /\ b # Nul
         IN /\ Commit(gl.s, m, Op("getline", gl.s))
            /\ glLog' = IF r = 1 THEN Append(glLog, b) ELSE glLog
            /\ buffer' = IF boolOf(m.st) /\ b # Nul THEN Append(buffer, b)
                                                   ELSE buffer
            /\ gl' = [gl EXCEPT !.c = b,
                                !.pc = IF cond THEN "loop"
                                       ELSE IF b = Nul THEN "call"
                                       ELSE "done"]
    /\ UNCHANGED live
    /\ UNCHANGED e2evars

\* getline, one evaluation of the loop condition
\*   this->read(&c, 1) && c != delim && c != '\0'
\* with the loop body buffer += c when it holds, and otherwise the exit:
\* the recursive call when c is '\0', the return when it is not.
\* r is the OS result of the read, b the byte it stored in c if any.
GetlineStep ==
    /\ gl.pc = "loop"
    /\ Len(glLog) < MaxReads /\ Len(buffer) < MaxBuf
    /\ \E r \in ReadOutcomes(Frame(gl.s), 1) :
       \E b \in (IF r = 1 THEN Byte ELSE {gl.c}) :
         LET m == read(Frame(gl.s), 1, r)
             cond == boolOf(m.st) /\ b # gl.delim /\ b # Nul
         IN /\ Commit(gl.s, m, Op("getline", gl.s))
            /\ glLog' = IF r = 1 THEN Append(glLog, b) ELSE glLog
            /\ buffer' = IF cond THEN Append(buffer, b) ELSE buffer
            /\ gl' = [gl EXCEPT !.c = b,
                                !.pc = IF cond THEN "loop"
                                       ELSE IF b = Nul THEN "call"
                                       ELSE "done"]
    /\ UNCHANGED live
    /\ UNCHANGED e2evars

\* getline has returned *this; the caller takes the line and goes on.
GetlineReturn ==
    /\ gl.pc = "done"
    /\ gl' = NoGetline
    /\ buffer' = <<>>
    /\ glLog' = <<>>
    /\ lastOp' = Op("getlineReturned", gl.s)
    /\ lastCalls' = <<>>
    /\ UNCHANGED <<live, _sd, state, fds, listening, connected, rdbufNull>>
    /\ UNCHANGED e2evars

\* Before the first Socket is constructed.
Init ==
    /\ live = [s \in Sock |-> FALSE]
    /\ _sd = [s \in Sock |-> NoSd]
    /\ state = [s \in Sock |-> {}]
    /\ fds = {}
    /\ listening = {}
    /\ connected = {}
    /\ rdbufNull \in BOOLEAN
    /\ gl = NoGetline
    /\ buffer = <<>>
    /\ glLog = <<>>
    /\ lastOp = Op("init", 0)
    /\ lastCalls = <<>>
    /\ pcServer = "Socket"
    /\ pcClient = "Socket"
    /\ client = NoClient
    /\ backlog = FALSE
    /\ wire = <<>>
    /\ inbox = <<>>
    /\ fin = FALSE

Next ==
    \/ \E s \in Sock : SocketDefault(s)
    \/ \E s \in Sock : SocketInt(s)
    \/ \E s \in Sock : \E t \in Sock \ {s} : MoveCtor(t, s)
    \/ \E s \in Sock : Destructor(s)
    \/ \E s \in Sock : Close(s)
    \/ \E s \in Sock : Listen(s)
    \/ \E s \in Sock : ListenStr(s)
    \/ \E s \in Sock : Connect(s)
    \/ \E s \in Sock : ConnectStr(s)
    \/ \E s \in Sock : \E t \in Sock \ {s} : Accept(s, t)
    \/ \E s \in Sock : Errcode(s)
    \/ \E s \in Sock : Read(s)
    \/ \E s \in Sock : Write(s)
    \/ \E s \in Sock : Info(s)
    \/ \E s \in Sock : PeerInfo(s)
    \/ \E s \in Sock : LocalInfo(s)
    \/ \E s \in Sock : GetlineCall(s)
    \/ GetlineEnter
    \/ GetlineStep
    \/ GetlineReturn

Spec == Init /\ [][Next]_vars

\* ------------------------------------------- the two example programs
\* example/server.cpp and example/client.cpp run as two processes.  The
\* server's Sockets are the objects of slots 1 (server) and 2 (client, the
\* accepted one) and its descriptor table is fds; the client program has
\* its own Socket and descriptor table in the variable client, and the
\* getline call in progress is its own.  The OS has descriptors and the
\* port to spare: a call fails only for what the programs did, and a
\* blocking call (accept, read) waits until it can return.

\* The frame of a method called on the client program's Socket.
ClientFrame == [sd |-> client.sd, st |-> client.st, open |-> client.open,
                lis |-> {}, conn |-> client.conn, calls |-> <<>>]

\* Write a frame back to the client program's Socket.
ClientCommit(m) ==
    client' = [sd |-> m.sd, st |-> m.st, open |-> m.open,
               conn |-> m.conn \cap m.open]

\* The server's port is in the listening state.
ServerListening == live[1] /\ _sd[1] \in listening

\* server.cpp:5  Socket server;
ServerSocket ==
    /\ pcServer = "Socket"
    /\ \E fd \in {LowestFree(fds)} :
       \E m0 \in {[Fresh(fd, fds, connected) EXCEPT
                     !.calls = <<<<"socket", fd, TRUE>>>>]} :
          Commit(1, SocketBody(m0, TRUE, [ok |-> TRUE, open |-> m0.open]),
                 Op("Socket", 1))
    /\ live' = [live EXCEPT ![1] = TRUE]
    /\ pcServer' = "listen"
    /\ UNCHANGED <<gl, buffer, glLog, pcClient, client, backlog, wire,
                   inbox, fin>>

\* server.cpp:7  server.listen(htons(1212), INADDR_ANY, SOMAXCONN);
ServerListen ==
    /\ pcServer = "listen"
    /\ Commit(1, listen(Frame(1), TRUE, TRUE), Op("listen", 1))
    /\ pcServer' = "accept"
    /\ UNCHANGED <<live, gl, buffer, glLog, pcClient, client, backlog, wire,
                   inbox, fin>>

\* server.cpp:8  Socket client = server.accept();  The OS accept, issued
\* when server is good, blocks until a connection awaits it.
ServerAccept ==
    /\ pcServer = "accept"
    /\ good(state[1]) => backlog
    /\ \E m \in {Frame(1)} :
       \E peersd \in {IF good(m.st) THEN LowestFree(m.open) ELSE NoSd} :
       \E m0 \in {[Fresh(peersd, m.open,
                         IF peersd # NoSd THEN m.conn \cup {peersd}
                                          ELSE m.conn) EXCEPT
                     !.calls = IF good(m.st)
                               THEN <<<<"accept", m.sd, TRUE>>>> ELSE <<>>]} :
       \E optOk \in {peersd # NoSd} :
       \E o \in BodyCloseOutcomes(m0, optOk) :
       \E n \in {SocketBody(m0, optOk, o)} :
          /\ _sd' = [_sd EXCEPT ![2] = n.sd]
          /\ state' = [state EXCEPT ![2] = n.st]
          /\ CommitOs(n, [Op("accept", 1) EXCEPT !.arg = 2])
    /\ live' = [live EXCEPT ![2] = TRUE]
    /\ backlog' = FALSE
    /\ pcServer' = "write"
    /\ UNCHANGED <<gl, buffer, glLog, pcClient, client, wire, inbox, fin>>

\* server.cpp:9  client.write("hello world!\n", 13);  The OS takes the 13
\* bytes of a write on a connected descriptor.
ServerWrite ==
    /\ pcServer = "write"
    /\ \E r \in {IF _sd[2] \in fds \cap connected THEN Len(HelloWorld)
                                                  ELSE -1} :
         /\ Commit(2, write(Frame(2), Len(HelloWorld), r), Op("write", 2))
         /\ wire' = IF r = Len(HelloWorld) THEN wire \o HelloWorld ELSE wire
    /\ pcServer' = "~client"
    /\ UNCHANGED <<live, gl, buffer, glLog, pcClient, client, backlog,
                   inbox, fin>>

\* server.cpp:10  return 0;  first client is destroyed: its end of the
\* connection is closed behind the bytes already written.
ServerDestroyClient ==
    /\ pcServer = "~client"
    /\ \E m \in {IF isOpen(_sd[2])
                 THEN close(Frame(2), [ok |-> _sd[2] \in fds,
                                       open |-> fds \ {_sd[2]}])
                 ELSE Frame(2)} :
         Commit(2, [m EXCEPT !.sd = NoSd, !.st = {}], Op("~Socket", 2))
    /\ live' = [live EXCEPT ![2] = FALSE]
    /\ fin' = TRUE
    /\ pcServer' = "~server"
    /\ UNCHANGED <<gl, buffer, glLog, pcClient, client, backlog, wire,
                   inbox>>

\* server.cpp:10  return 0;  then server is destroyed and main has ended.
ServerDestroyServer ==
    /\ pcServer = "~server"
    /\ \E m \in {IF isOpen(_sd[1])
                 THEN close(Frame(1), [ok |-> _sd[1] \in fds,
                                       open |-> fds \ {_sd[1]}])
                 ELSE Frame(1)} :
         Commit(1, [m EXCEPT !.sd = NoSd, !.st = {}], Op("~Socket", 1))
    /\ live' = [live EXCEPT ![1] = FALSE]
    /\ pcServer' = "exit"
    /\ UNCHANGED <<gl, buffer, glLog, pcClient, client, backlog, wire,
                   inbox, fin>>

\* client.cpp:8  Socket client;
ClientSocket ==
    /\ pcClient = "Socket"
    /\ \E fd \in {LowestFree(client.open)} :
       \E m0 \in {[ClientFrame EXCEPT
                     !.sd = fd, !.st = {}, !.open = @ \cup {fd},
                     !.calls = <<<<"socket", fd, TRUE>>>>]} :
          ClientCommit(SocketBody(m0, TRUE, [ok |-> TRUE, open |-> m0.open]))
    /\ pcClient' = "connect"
    /\ UNCHANGED <<live, _sd, state, fds, listening, connected, rdbufNull,
                   gl, buffer, glLog, lastOp, lastCalls, pcServer, backlog,
                   wire, inbox, fin>>

\* client.cpp:10  client.connect(htons(1212), INADDR_ANY);  The OS connect
\* succeeds when the server's port is listening and is refused otherwise.
ClientConnect ==
    /\ pcClient = "connect"
    /\ \E m \in {connect(ClientFrame, ServerListening)} :
         /\ ClientCommit(m)
         /\ backlog' = (backlog \/ m.sd \in m.conn)
    /\ pcClient' = "getline"
    /\ UNCHANGED <<live, _sd, state, fds, listening, connected, rdbufNull,
                   gl, buffer, glLog, lastOp, lastCalls, pcServer, wire,
                   inbox, fin>>

\* client.cpp:7,11  std::string buffer; client.getline(buffer);  the call,
\* with the default delimiter.
ClientGetlineCall ==
    /\ pcClient = "getline"
    /\ gl' = [pc |-> "call", s |-> 0, c |-> NoChar, delim |-> Newline]
    /\ buffer' = <<>>
    /\ glLog' = <<>>
    /\ pcClient' = "cout"
    /\ UNCHANGED <<live, _sd, state, fds, listening, connected, rdbufNull,
                   lastOp, lastCalls, pcServer, client, backlog, wire,
                   inbox, fin>>

\* getline in the client, entry: char c = -1; buffer.clear();
ClientGetlineEnter ==
    /\ pcClient = "cout" /\ gl.pc = "call"
    /\ gl' = [gl EXCEPT !.pc = "loop", !.c = NoChar]
    /\ buffer' = <<>>
    /\ UNCHANGED <<live, _sd, state, fds, listening, connected, rdbufNull,
                   glLog, lastOp, lastCalls, e2evars>>

\* The OS result of a one-byte read on the client's descriptor: an error
\* when it is not connected, the next delivered byte when there is one, end
\* of stream when the server's end is closed and nothing is under way; no
\* result yet (the read blocks) otherwise.
ClientReadOutcomes ==
    IF client.sd \notin (client.open \cap client.conn) THEN {-1}
    ELSE IF inbox # <<>> THEN {1}
    ELSE IF fin /\ wire = <<>> THEN {0}
    ELSE {}

\* Mutant of the getline loop in the client: the byte is stored before it
\* is compared with the delimiter.
ClientGetlineStep_storesDelim ==
    /\ pcClient = "cout" /\ gl.pc = "loop"
    /\ \E r \in ClientReadOutcomes :
       \E b \in {IF r = 1 THEN Head(inbox) ELSE gl.c} :
       \E m \in {read(ClientFrame, 1, r)} :
       \E cond \in {boolOf(m.st) /\ b # gl.delim /\ b # Nul} :
         /\ ClientCommit(m)
         /\ inbox' = IF r = 1 THEN Tail(inbox) ELSE inbox
         /\ glLog' = IF r = 1 THEN Append(glLog, b) ELSE glLog
         /\ buffer' = IF boolOf(m.st) /\ b # Nul THEN Append(buffer, b)
                                                ELSE buffer
         /\ gl' = [gl EXCEPT !.c = b,
                             !.pc = IF cond THEN "loop"
                                    ELSE IF b = Nul THEN "call"
                                    ELSE "done"]
    /\ UNCHANGED <<live, _sd, state, fds, listening, connected, rdbufNull,
                   lastOp, lastCalls, pcServer, pcClient, backlog, wire, fin>>

\* getline in the client, one evaluation of the loop condition
\*   this->read(&c, 1) && c != delim && c != '\0'
\* with buffer += c when it holds, the recursive call or the return when it
\* does not.
ClientGetlineStep ==
    /\ pcClient = "cout" /\ gl.pc = "loop"
    /\ \E r \in ClientReadOutcomes :
       \E b \in {IF r = 1 THEN Head(inbox) ELSE gl.c} :
       \E m \in {read(ClientFrame, 1, r)} :
       \E cond \in {boolOf(m.st) /\ b # gl.delim /\ b # Nul} :
         /\ ClientCommit(m)
         /\ inbox' = IF r = 1 THEN Tail(inbox) ELSE inbox
         /\ glLog' = IF r = 1 THEN Append(glLog, b) ELSE glLog
         /\ buffer' = IF cond THEN Append(buffer, b) ELSE buffer
         /\ gl' = [gl EXCEPT !.c = b,
                             !.pc = IF cond THEN "loop"
                                    ELSE IF b = Nul THEN "call"
                                    ELSE "done"]
    /\ UNCHANGED <<live, _sd, state, fds, listening, connected, rdbufNull,
                   lastOp, lastCalls, pcServer, pcClient, backlog, wire, fin>>

\* client.cpp:12-13  getline has returned; std::cout << buffer << std::endl;
\* return 0;  client is destroyed and main has ended.
ClientReturn ==
    /\ pcClient = "cout" /\ gl.pc = "done"
    /\ \E m \in {IF isOpen(client.sd)
                 THEN close(ClientFrame, [ok |-> client.sd \in client.open,
                                          open |-> client.open \ {client.sd}])
                 ELSE ClientFrame} :
         ClientCommit([m EXCEPT !.sd = NoSd, !.st = {}])
    /\ pcClient' = "exit"
    /\ UNCHANGED <<live, _sd, state, fds, listening, connected, rdbufNull,
                   gl, buffer, glLog, lastOp, lastCalls, pcServer, backlog,
                   wire, inbox, fin>>

\* TCP delivers some of the bytes under way, in order.
Deliver ==
    /\ wire # <<>>
    /\ \E n \in 1..Len(wire) :
         /\ inbox' = inbox \o SubSeq(wire, 1, n)
         /\ wire' = SubSeq(wire, n + 1, Len(wire))
    /\ UNCHANGED <<live, _sd, state, fds, listening, connected, rdbufNull,
                   gl, buffer, glLog, lastOp, lastCalls, pcServer, pcClient,
                   client, backlog, fin>>

ServerNext ==
    \/ ServerSocket
    \/ ServerListen
    \/ ServerAccept
    \/ ServerWrite
    \/ ServerDestroyClient
    \/ ServerDestroyServer

ClientNext ==
    \/ ClientSocket
    \/ ClientConnect
    \/ ClientGetlineCall
    \/ ClientGetlineEnter
    \/ ClientGetlineStep
    \/ ClientReturn

NextE2E == ServerNext \/ ClientNext \/ Deliver

\* Both processes are scheduled for as long as they can run and TCP keeps
\* delivering what was written.
SpecE2E ==
    /\ Init
    /\ [][NextE2E]_vars
    /\ WF_vars(ServerNext)
    /\ WF_vars(ClientNext)
    /\ WF_vars(Deliver)

\* ------------------------------------------------------------ properties
\* The names of the OS calls the last operation issued.
CallNames == {lastCalls[i][1] : i \in 1..Len(lastCalls)}

\* The last operation issued the OS call name and the OS answered ok.
Called(name, ok) ==
    \E i \in 1..Len(lastCalls) : lastCalls[i][1] = name /\ lastCalls[i][3] = ok

\* The Socket object the last operation constructed, when it was one.
Constructed == IF lastOp.op = "accept" THEN lastOp.arg ELSE lastOp.s

\* C1: a listen or connect call with a numeric address on a Socket that has
\* fail or bad set issues no OS call and leaves the status bits as they were.
C1_FailedListenConnectIsNoop ==
    [][\A s \in Sock :
         (lastOp'.op \in {"listen", "connect"} /\ lastOp'.s = s
            /\ fail(state[s]))
         => (lastCalls' = <<>> /\ state'[s] = state[s])]_vars

\* C1 witness: listen has just returned on a Socket with fail set and
\* issued no OS call.
C1_Witness ==
    /\ lastOp.op = "listen"
    /\ "fail" \in state[lastOp.s]
    /\ lastCalls = <<>>

\* C2 (as claimed): read on a Socket with eof, fail or bad set issues no OS
\* read and leaves the status bits as they were.
C2_ReadIsGuarded ==
    [][\A s \in Sock :
         (lastOp'.op = "read" /\ lastOp'.s = s /\ ~good(state[s]))
         => (lastCalls' = <<>> /\ state'[s] = state[s])]_vars

\* C3 (as claimed): after a close() whose OS close succeeded the status is
\* exactly good.
C3_CloseResetsStatus ==
    (lastOp.op = "close" /\ Called("close", TRUE)) => good(state[lastOp.s])

\* C4 (as claimed): after a move construction the source holds the unbound
\* sentinel, and no two live Sockets ever hold the same open descriptor.
C4_MoveTransfersDescriptor ==
    /\ lastOp.op = "move" => ~isOpen(_sd[lastOp.arg])
    /\ \A s \in Sock : \A t \in Sock \ {s} :
         (live[s] /\ live[t] /\ _sd[s] \in fds) => _sd[s] # _sd[t]

\* C5 (as claimed): when a read inside getline meets end of stream (OS
\* result 0) or an error (OS result -1), getline returns at that point and
\* appends nothing more to the buffer.
C5_GetlineStopsWhenUnusable ==
    [][(gl.pc = "loop" /\ Len(lastCalls') = 1
          /\ lastCalls'[1][1] = "read" /\ lastCalls'[1][4] \in {0, -1})
       => (gl'.pc = "done" /\ buffer' = buffer)]_vars

\* The delivered bytes log is x1..xm, '\0', y1..yn, d with no '\0' and no d
\* among the xi and yj.
OneNulLine(log, d) ==
    /\ Len(log) >= 2
    /\ log[Len(log)] = d
    /\ Cardinality({i \in 1..Len(log) : log[i] = Nul}) = 1
    /\ \A i \in 1..(Len(log) - 1) : log[i] # d

\* The position of the '\0' in such a log, x1..xm before it, y1..yn after.
NulAt(log) == CHOOSE i \in 1..Len(log) : log[i] = Nul
BeforeNul(log) == SubSeq(log, 1, NulAt(log) - 1)
AfterNul(log) == SubSeq(log, NulAt(log) + 1, Len(log) - 1)

\* getline has returned on a Socket that is still good, having been
\* delivered x1..xm, '\0', y1..yn, delim.
GetlineReturnedOneNulLine ==
    /\ gl.pc = "done"
    /\ good(state[gl.s])
    /\ OneNulLine(glLog, gl.delim)

\* C6 (as claimed): on the stream x1..xm, '\0', y1..yn, delim the buffer
\* holds x1..xm followed by y1..yn when getline returns.
C6_NulKeepsEarlierBytes ==
    GetlineReturnedOneNulLine
    => buffer = BeforeNul(glLog) \o AfterNul(glLog)

\* C6 (amended): on the stream x1..xm, '\0', y1..yn, delim, read on a good
\* Socket, the buffer holds y1..yn only when getline returns: the recursive
\* call clears the buffer, so the bytes before the null byte are dropped.
C6_NulDropsEarlierBytes ==
    GetlineReturnedOneNulLine => buffer = AfterNul(glLog)

\* C6 witness: getline has returned after a non-empty x, '\0', a non-empty
\* y and the delimiter.
C6_Witness ==
    /\ GetlineReturnedOneNulLine
    /\ BeforeNul(glLog) # <<>>
    /\ AfterNul(glLog) # <<>>

\* C7 (as claimed): listen or connect with an address string that is not a
\* dotted-decimal IPv4 address sets fail and issues no OS bind, listen or
\* connect call.
C7_BadAddressStringFails ==
    (lastOp.op \in {"listenStr", "connectStr"} /\ lastOp.arg = "not.an.ip")
    => ("fail" \in state[lastOp.s] /\ lastCalls = <<>>)

\* C8 (as claimed): write on a Socket that is not good issues no OS write
\* and leaves the status bits as they were.
C8_WriteIsGuarded ==
    [][\A s \in Sock :
         (lastOp'.op = "write" /\ lastOp'.s = s /\ ~good(state[s]))
         => (lastCalls' = <<>> /\ state'[s] = state[s])]_vars

\* C9: fail and bad are sticky: every step that leaves the Socket alive and
\* is not a close() on it whose OS close succeeded keeps each of the two
\* bits that was set.
C9_FailureBitsAreSticky ==
    [][\A s \in Sock :
         (live[s] /\ live'[s]
            /\ ~(lastOp'.op = "close" /\ lastOp'.s = s
                   /\ lastCalls' = <<<<"close", _sd[s], TRUE>>>>))
         => (state[s] \cap {"fail", "bad"}) \subseteq state'[s]]_vars

\* C9 witness: on a build where setstate adds nothing of its own, a write
\* that failed has set bad on a Socket that still carries an earlier fail.
C9_Witness ==
    /\ ~rdbufNull
    /\ lastOp.op = "write"
    /\ lastCalls = <<<<"write", _sd[lastOp.s], 1, -1>>>>
    /\ {"fail", "bad"} \subseteq state[lastOp.s]

\* C10: a construction (default, from a given descriptor, or by accept)
\* whose reuse-address option call failed ends with isOpen() false and fail
\* set, the constructor having passed the descriptor to OS close, whether
\* that close succeeded or failed.
C10_FailedSetupClosesSocket ==
    (lastOp.op \in {"Socket", "SocketInt", "accept"}
       /\ Called("setsockopt", FALSE))
    => /\ ~isOpen(_sd[Constructed])
       /\ "fail" \in state[Constructed]
       /\ "close" \in CallNames
       /\ \A i \in 1..Len(lastCalls) :
            lastCalls[i][1] = "setsockopt"
            => /\ i < Len(lastCalls)
               /\ lastCalls[i + 1][1] = "close"
               /\ lastCalls[i + 1][2] = lastCalls[i][2]
               /\ lastCalls[i][2] \notin fds

\* C10 witness: the option call failed on a valid fresh descriptor and the
\* close issued by the constructor failed as well.
C10_Witness ==
    /\ lastOp.op = "Socket"
    /\ Called("socket", TRUE)
    /\ Called("setsockopt", FALSE)
    /\ Called("close", FALSE)
    /\ ~isOpen(_sd[lastOp.s])

\* C11: accept() issues the OS accept only when the listening Socket is
\* good; the Socket it returns is open exactly when its status is good; and
\* when the listening Socket was not good or the OS accept failed, the
\* returned Socket holds the unbound sentinel and has fail set.
C11_AcceptReflectsOutcome ==
    [][lastOp'.op = "accept"
       => /\ "accept" \in CallNames' => good(state[lastOp'.s])
          /\ isOpen(_sd'[lastOp'.arg]) <=> good(state'[lastOp'.arg])
          /\ (~good(state[lastOp'.s]) \/ Called("accept", FALSE)')
             => /\ _sd'[lastOp'.arg] = NoSd
                /\ "fail" \in state'[lastOp'.arg]]_vars

\* C11 witness: the OS accept succeeded and the returned Socket is open on
\* the peer descriptor, with status good.
C11_Witness ==
    /\ lastOp.op = "accept"
    /\ Called("accept", TRUE)
    /\ _sd[lastOp.arg] \in fds
    /\ _sd[lastOp.arg] # _sd[lastOp.s]
    /\ good(state[lastOp.arg])

\* C11 second case reached: the OS accept failed and the returned Socket
\* holds the sentinel with fail set.
C11_FailedAcceptReached ==
    /\ lastOp.op = "accept"
    /\ Called("accept", FALSE)
    /\ _sd[lastOp.arg] = NoSd
    /\ "fail" \in state[lastOp.arg]

\* The operations that issue OS calls on the descriptor of *this.
OwnOps == {"listen", "listenStr", "connect", "connectStr", "accept",
           "errcode", "read", "write", "info", "peerinfo", "getline",
           "close"}

\* The OS calls of the history calls that operation op issued on the
\* descriptor of *this and that failed; what accept issues on the
\* descriptor of the Socket it returns is not among them.
FailedOwnCalls(op, calls) ==
    {calls[i][1] : i \in {j \in 1..Len(calls) :
        /\ calls[j][1] \notin {"socket", "setsockopt"}
        /\ op = "accept" => calls[j][1] = "accept"
        /\ IF calls[j][1] \in {"read", "write"} THEN calls[j][4] = -1
                                                 ELSE calls[j][3] = FALSE}}

\* C12 (as claimed): an operation on a Socket one of whose OS calls failed
\* leaves fail or bad set on that Socket, and the next call of the same
\* operation on that Socket does not issue that OS call again.
C12_NoRetry ==
    [][/\ (lastOp'.op \in OwnOps /\ FailedOwnCalls(lastOp'.op, lastCalls') # {})
          => fail(state'[lastOp'.s])
       /\ (lastOp.op \in OwnOps /\ lastOp'.op = lastOp.op
             /\ lastOp'.s = lastOp.s)
          => \A i \in 1..Len(lastCalls') :
               lastCalls'[i][1] \notin FailedOwnCalls(lastOp.op, lastCalls)]_vars

\* The delivered bytes log is b1..bn, d with no d and no '\0' among the bi.
OneLine(log, d) ==
    /\ Len(log) >= 1
    /\ log[Len(log)] = d
    /\ \A i \in 1..(Len(log) - 1) : log[i] # d /\ log[i] # Nul

\* C14: a getline call on a good Socket that is delivered b1..bn and then
\* the delimiter keeps the status as it was at every delivered byte, and
\* once the delimiter is delivered it has returned, with the buffer holding
\* exactly b1..bn (nothing of its previous content, not the delimiter) and
\* no further byte consumed.
C14_GetlineReturnsLine ==
    [][/\ (gl.pc = "loop" /\ Len(glLog') = Len(glLog) + 1)
          => state'[gl.s] = state[gl.s]
       /\ (gl'.pc # "idle" /\ good(state'[gl'.s])
             /\ OneLine(glLog', gl'.delim))
          => /\ gl'.pc = "done"
             /\ buffer' = SubSeq(glLog', 1, Len(glLog') - 1)]_vars

\* C14 witness: getline has returned on a good Socket after two payload
\* bytes and the delimiter, with the two bytes in the buffer.
C14_Witness ==
    /\ gl.pc = "done"
    /\ good(state[gl.s])
    /\ OneLine(glLog, gl.delim)
    /\ Len(glLog) = 3
    /\ buffer = <<LetterH, LetterH>>

\* C15 (as claimed): when the lifetime of a Socket ends its descriptor is
\* no longer open in the OS, and neither close() nor the destructor passes
\* to OS close a valid descriptor that has already been released.
C15_ReleasedExactlyOnce ==
    [][/\ lastOp'.op = "~Socket" => _sd[lastOp'.s] \notin fds'
       /\ lastOp'.op \in {"close", "~Socket"}
          => \A i \in 1..Len(lastCalls') :
               (lastCalls'[i][1] = "close" /\ lastCalls'[i][2] # NoSd)
               => lastCalls'[i][2] \in fds]_vars

\* C16: when connect is called on a good Socket holding an open descriptor
\* and the OS connect fails, fail is set and the Socket keeps its
\* descriptor, still open in the OS; and no operation other than close()
\* on that Socket ever changes the descriptor a live Socket holds.
C16_FailedConnectStaysOpen ==
    [][\A s \in Sock :
         /\ (lastOp'.op \in {"connect", "connectStr"} /\ lastOp'.s = s
               /\ good(state[s]) /\ _sd[s] \in fds
               /\ Called("connect", FALSE)')
            => /\ "fail" \in state'[s]
               /\ _sd'[s] = _sd[s]
               /\ isOpen(_sd'[s])
               /\ _sd'[s] \in fds'
         /\ (live[s] /\ live'[s] /\ _sd'[s] # _sd[s])
            => (lastOp'.op = "close" /\ lastOp'.s = s)]_vars

\* C16 witness: the OS connect has just failed on a Socket that is left
\* with fail set and its descriptor open.
C16_Witness ==
    /\ lastOp.op = "connect"
    /\ lastCalls = <<<<"connect", _sd[lastOp.s], FALSE>>>>
    /\ "fail" \in state[lastOp.s]
    /\ _sd[lastOp.s] \in fds

\* C17 (as claimed): after close() the Socket holds the unbound sentinel and
\* isOpen() is false, whatever the OS close answered; fail is set when the
\* OS close failed; and a Socket that was open with status good is good
\* again after a close() whose OS close succeeded.
C17_CloseLeavesSentinelAndGood ==
    [][\A s \in Sock :
         (lastOp'.op = "close" /\ lastOp'.s = s)
         => /\ _sd'[s] = NoSd
            /\ ~isOpen(_sd'[s])
            /\ Called("close", FALSE)' => "fail" \in state'[s]
            /\ (_sd[s] \in fds /\ good(state[s]) /\ Called("close", TRUE)')
               => good(state'[s])]_vars

\* C18 (as claimed): read on a good Socket issues exactly one OS read, on
\* the descriptor of the Socket; result 0 with len > 0 sets eof and no other
\* bit, result -1 sets bad, and any other result leaves the status as it
\* was.
C18_ReadMapsResultToStatus ==
    [][\A s \in Sock :
         (lastOp'.op = "read" /\ lastOp'.s = s /\ good(state[s]))
         => /\ Len(lastCalls') = 1
            /\ lastCalls'[1][1] = "read"
            /\ lastCalls'[1][2] = _sd[s]
            /\ IF lastCalls'[1][4] = 0 /\ lastCalls'[1][3] > 0
               THEN state'[s] = {"eof"}
               ELSE IF lastCalls'[1][4] = -1
               THEN "bad" \in state'[s]
               ELSE state'[s] = state[s]]_vars

\* C19: write on a good Socket issues exactly one OS write, on the
\* descriptor of the Socket; bad is set when the OS reports 0 bytes written
\* with len > 0 or an error, and any other result leaves the status as it
\* was.
C19_WriteMapsResultToStatus ==
    [][\A s \in Sock :
         (lastOp'.op = "write" /\ lastOp'.s = s /\ good(state[s]))
         => /\ Len(lastCalls') = 1
            /\ lastCalls'[1][1] = "write"
            /\ lastCalls'[1][2] = _sd[s]
            /\ IF (lastCalls'[1][4] = 0 /\ lastCalls'[1][3] > 0)
                    \/ lastCalls'[1][4] = -1
               THEN "bad" \in state'[s]
               ELSE state'[s] = state[s]]_vars

\* C19 witness: on a connected Socket the OS has just reported 0 bytes
\* written for a write of one byte, and bad, set by that write alone, is
\* the only bit of the Socket.
C19_Witness ==
    /\ ~rdbufNull
    /\ lastOp.op = "write"
    /\ _sd[lastOp.s] \in connected
    /\ lastCalls = <<<<"write", _sd[lastOp.s], 1, 0>>>>
    /\ state[lastOp.s] = {"bad"}

\* C20 (as claimed): no OS bind, listen, accept, connect, read or write call
\* is ever issued on the unbound sentinel descriptor.
C20_NoCallOnSentinel ==
    \A i \in 1..Len(lastCalls) :
      lastCalls[i][1] \in {"bind", "listen", "accept", "connect",
                           "read", "write"}
      => lastCalls[i][2] # NoSd

\* The client program has connected to the server's port and is about to
\* call getline.
ClientConnected == pcClient = "getline" /\ client.sd \in client.conn

\* getline has returned in the client program with the line "hello world!"
\* in the buffer, the delimiter stripped, and the status good.
ClientGotHelloWorld ==
    /\ pcClient = "cout" /\ gl.pc = "done"
    /\ buffer = SubSeq(HelloWorld, 1, Len(HelloWorld) - 1)
    /\ good(client.st)

\* C13: once the client has connected to the listening server, its getline
\* call eventually returns with buffer "hello world!" (12 bytes) and
\* status good, however the two programs interleave and however the 13
\* bytes arrive.
C13_HelloWorldEndToEnd == ClientConnected ~> ClientGotHelloWorld

\* C13 witness: getline has returned "hello world!" in the client after the
\* server program has ended, all 13 bytes having been read one by one.
C13_Witness ==
    /\ ClientGotHelloWorld
    /\ pcServer = "exit"
    /\ glLog = HelloWorld
====
